---- MODULE Spec2Model ----
(***************************************************************************)
(* A model of dmi-copy: the natural-syntax argument parser                 *)
(* (args.rs, parse_natural_syntax), the flag-syntax state list             *)
(* (args.rs, parse_state_arg and the flatten in parse), the merge of icon  *)
(* states (main.rs, main) and the write of the result (main.rs, save_dmi). *)
(***************************************************************************)
EXTENDS Integers, Sequences, FiniteSets, TLC

VARIABLES
    pc,               \* which part of the program runs, "done" once it returned
    \* ---- parse_natural_syntax ----
    args,             \* the tokens handed to parse_natural_syntax
    pos,              \* index of the token the for loop looks at next
    icon_states,      \* Vec<String>
    from,             \* Option<PathBuf>: <<>> is None, <<p>> is Some(p)
    to,               \* Option<PathBuf>
    current_mode,     \* ParseMode
    result,           \* "Running", "Ok" or "Err"
    err,              \* the message of the Err, "" otherwise
    seen,             \* per token looked at: what the parser held just before
    \* ---- flag syntax ----
    flag_from,        \* cli.from: Option<PathBuf>
    flag_to,          \* cli.to: Option<PathBuf>
    state_values,     \* the raw values of the --state occurrences, in order
    states,           \* Vec<Vec<String>>: one parsed list per occurrence
    \* ---- merge ----
    from_states,      \* from.states, the source container
    to_states,        \* to.states, the destination container
    to_before,        \* to.states when the current run started
    states_to_insert, \* the Vec collected by filter_map
    src_pos,          \* index of the source state the iterator yields next
    reports,          \* the lines printed: <<name, kind>>
    run,              \* how many times the merge has been started
    \* ---- save_dmi ----
    payload,          \* the bytes dmi.save produces for the container
    dest_file,        \* contents of the file at the destination path
    dest_before,      \* contents of that file before the run
    temp_exists,      \* the temporary file is on disk
    temp_file,        \* contents of the temporary file
    buffer,           \* bytes held by the BufWriter, not yet in the file
    copied,           \* bytes fs::copy has written to the destination so far
    \* ---- main ----
    stage,            \* where main is: "unit" when one part runs on its own
    err_path          \* the path the context of a load error names, "" if none

parserVars == <<args, pos, icon_states, from, to, current_mode, result, err,
                seen>>
flagVars == <<flag_from, flag_to, state_values, states>>
mergeVars == <<from_states, to_states, to_before, states_to_insert,
               src_pos, reports, run>>
commitVars == <<payload, dest_file, dest_before, temp_exists, temp_file,
                buffer, copied>>
mainVars == <<stage, err_path>>
vars == <<pc, parserVars, flagVars, mergeVars, commitVars, mainVars>>

\* ------------------------------------------------------------------ bounds
MaxArgs == 7
MaxOccur == 2
MaxChars == 4
MaxSrc == 3
MaxDst == 2
MaxReq == 3
MaxRuns == 2
MaxBytes == 2
MainArgs == 5
MainLen == 1

\* ------------------------------------------------------------------ inputs
SeqsUpTo(S, n) == UNION {[1..k -> S] : k \in 0..n}

Tokens == {"from", "to", "a", "b"}
\* a --state value is a sequence of these characters
Chars == {"a", "b", ",", " "}
\* an IconState is its name and the rest of it, which the merge only compares
Names == {"a", "b", "c"}
IconStates ==
    {[name |-> "a", data |-> 1], [name |-> "a", data |-> 2],
     [name |-> "b", data |-> 1], [name |-> "c", data |-> 1]}
Bytes == {0, 1}
\* the lists of requested names: no name twice, since the merge reads the
\* list through contains alone
Requests ==
    {r \in SeqsUpTo(Names, MaxReq) :
        \A i, j \in DOMAIN r : i # j => r[i] # r[j]}


None == <<>>
Some(x) == <<x>>
IsSome(o) == o # <<>>

\* ParseMode
ParseModes == {"States", "From", "WaitingTo", "To", "Done"}

\* Vec::push
PushFront(v, x) == <<x>> \o v
Push(v, x) == Append(v, x)

\* ------------------------------------------------- idle values of each part
ParserIdle ==
    /\ args = <<>> /\ pos = 1 /\ icon_states = <<>>
    /\ from = None /\ to = None
    /\ current_mode = "States" /\ result = "Running" /\ err = ""
    /\ seen = <<>>

FlagIdle ==
    /\ flag_from = None /\ flag_to = None
    /\ state_values = <<>> /\ states = <<>>

MergeIdle ==
    /\ from_states = <<>> /\ to_states = <<>> /\ to_before = <<>>
    /\ states_to_insert = <<>> /\ src_pos = 1
    /\ reports = <<>> /\ run = 1

CommitIdle ==
    /\ payload = <<>> /\ dest_file = <<>> /\ dest_before = <<>>
    /\ temp_exists = FALSE /\ temp_file = <<>> /\ buffer = <<>>
    /\ copied = 0

\* a part of the program run on its own
MainIdle == stage = "unit" /\ err_path = ""

\* =================================================== parse_natural_syntax
InitNatural ==
    /\ pc = "natural"
    /\ args \in SeqsUpTo(Tokens, MaxArgs) \ {<<>>}
    /\ pos = 1
    /\ icon_states = <<>>
    /\ from = None
    /\ to = None
    /\ current_mode = "States"
    /\ result = "Running"
    /\ err = ""
    /\ seen = <<>>
    /\ FlagIdle /\ MergeIdle /\ CommitIdle /\ MainIdle

\* History: what the parser held when the for loop looked at args[pos].
Look ==
    seen' = Append(seen, [mode |-> current_mode, icon_states |-> icon_states,
                          from |-> from, to |-> to])

\* return Err(eyre!(msg))
ReturnErr(msg) ==
    /\ result' = "Err"
    /\ err' = msg
    /\ pc' = "done"

\* FromKeyword without the test of icon_states
FromKeywordUnchecked ==
    /\ pc = "natural" /\ pos <= Len(args)
    /\ args[pos] = "from"
    /\ Look
    /\ current_mode' = "From"
    /\ pos' = pos + 1
    /\ UNCHANGED <<pc, result, err>>
    /\ UNCHANGED <<args, icon_states, from, to>>
    /\ UNCHANGED <<flagVars, mergeVars, commitVars, mainVars>>

\* the arm "from" of the match on the token
FromKeyword ==
    /\ pc = "natural" /\ pos <= Len(args)
    /\ args[pos] = "from"
    /\ Look
    /\ IF icon_states # <<>>
         THEN /\ current_mode' = "From"
              /\ pos' = pos + 1
              /\ UNCHANGED <<pc, result, err>>
         ELSE /\ ReturnErr("No icon states specified before 'from'")
              /\ UNCHANGED <<current_mode, pos>>
    /\ UNCHANGED <<args, icon_states, from, to>>
    /\ UNCHANGED <<flagVars, mergeVars, commitVars, mainVars>>

\* ToKeyword without the test of `from`
ToKeywordUnchecked ==
    /\ pc = "natural" /\ pos <= Len(args)
    /\ args[pos] = "to"
    /\ Look
    /\ current_mode' = "To"
    /\ pos' = pos + 1
    /\ UNCHANGED <<pc, result, err>>
    /\ UNCHANGED <<args, icon_states, from, to>>
    /\ UNCHANGED <<flagVars, mergeVars, commitVars, mainVars>>

\* the arm "to" of the match on the token
ToKeyword ==
    /\ pc = "natural" /\ pos <= Len(args)
    /\ args[pos] = "to"
    /\ Look
    /\ IF IsSome(from)
         THEN /\ current_mode' = "To"
              /\ pos' = pos + 1
              /\ UNCHANGED <<pc, result, err>>
         ELSE /\ ReturnErr("Source file not specified before 'to'")
              /\ UNCHANGED <<current_mode, pos>>
    /\ UNCHANGED <<args, icon_states, from, to>>
    /\ UNCHANGED <<flagVars, mergeVars, commitVars, mainVars>>

\* the arm `value` of the match on the token: a match on current_mode
Value ==
    /\ pc = "natural" /\ pos <= Len(args)
    /\ args[pos] \notin {"from", "to"}
    /\ Look
    /\ CASE current_mode = "States" ->
              /\ icon_states' = Push(icon_states, args[pos])
              /\ pos' = pos + 1
              /\ UNCHANGED <<pc, from, to, current_mode, result, err>>
         [] current_mode = "From" ->
              /\ from' = Some(args[pos])
              /\ current_mode' = "WaitingTo"
              /\ pos' = pos + 1
              /\ UNCHANGED <<pc, icon_states, to, result, err>>
         [] current_mode = "To" ->
              /\ to' = Some(args[pos])
              /\ current_mode' = "Done"
              /\ pos' = pos + 1
              /\ UNCHANGED <<pc, icon_states, from, result, err>>
         [] current_mode = "WaitingTo" ->
              /\ ReturnErr("Expected 'to' keyword")
              /\ UNCHANGED <<pos, icon_states, from, to, current_mode>>
         [] current_mode = "Done" ->
              /\ ReturnErr("Unexpected additional arguments")
              /\ UNCHANGED <<pos, icon_states, from, to, current_mode>>
    /\ UNCHANGED args
    /\ UNCHANGED <<flagVars, mergeVars, commitVars, mainVars>>

\* the match on (from, to) after the loop
EndOfArgs ==
    /\ pc = "natural" /\ pos > Len(args)
    /\ CASE IsSome(from) /\ IsSome(to) ->
              /\ result' = "Ok" /\ err' = "" /\ pc' = "done"
         [] IsSome(from) /\ ~IsSome(to) ->
              ReturnErr("Missing destination file")
         [] ~IsSome(from) /\ IsSome(to) ->
              ReturnErr("Missing source file")
         [] ~IsSome(from) /\ ~IsSome(to) ->
              ReturnErr("Missing both source and destination file")
    /\ UNCHANGED <<args, pos, icon_states, from, to, current_mode, seen>>
    /\ UNCHANGED <<flagVars, mergeVars, commitVars, mainVars>>

NextNatural == FromKeyword \/ ToKeyword \/ Value \/ EndOfArgs

SpecNatural == InitNatural /\ [][NextNatural]_vars

\* ------------------------------------------- properties of the parser
Keywords == {"from", "to"}

\* a is s1 ... sn from F to T, n >= 1, with no keyword among s1..sn, F, T
WellFormed(a) ==
    LET n == Len(a) - 4 IN
    /\ n >= 1
    /\ a[n + 1] = "from"
    /\ a[n + 3] = "to"
    /\ \A i \in (1..n) \cup {n + 2, n + 4} : a[i] \notin Keywords

\* C1: for every input s1 ... sn from F to T (n >= 1, no keyword among the
\* s, F and T) parse_natural_syntax returns Ok with from = F, to = T and
\* icon_states = [s1, ..., sn] in the original order.
C1_WellFormedParses ==
    (pc = "done" /\ WellFormed(args)) =>
        /\ result = "Ok"
        /\ from = Some(args[Len(args) - 2])
        /\ to = Some(args[Len(args)])
        /\ icon_states = SubSeq(args, 1, Len(args) - 4)

\* a well-formed input with three state names, not all the same, has returned
C1_Witness ==
    /\ pc = "done" /\ WellFormed(args)
    /\ Len(args) = 7
    /\ args[1] # args[2]
    /\ args[6] # args[4]
    /\ result = "Ok"

\* C7: once the destination path has been consumed (mode Done), any further
\* token, whatever its text, makes parse_natural_syntax return an error.
C7_TokenAfterDoneIsError ==
    (pc = "done" /\ \E i \in DOMAIN seen : seen[i].mode = "Done") =>
        result = "Err"

\* C8: in mode WaitingTo the token "to" moves the parser to mode To, and
\* every other token makes parse_natural_syntax return an error.
C8_WaitingToWantsTo ==
    /\ \A i \in DOMAIN seen :
          (seen[i].mode = "WaitingTo" /\ args[i] = "to") =>
              (IF i < Len(seen) THEN seen[i + 1].mode ELSE current_mode)
                  = "To"
    /\ (pc = "done" /\ \E i \in DOMAIN seen :
                          seen[i].mode = "WaitingTo" /\ args[i] # "to") =>
          result = "Err"

\* C9: "from" met before any state name was collected, and "to" met before a
\* source path was set, each make parse_natural_syntax return an error at
\* that token; no request is produced.
C9_EarlyKeywordIsError ==
    \A i \in DOMAIN seen :
        (\/ args[i] = "from" /\ seen[i].icon_states = <<>>
         \/ args[i] = "to" /\ seen[i].from = None) =>
            /\ pc = "done"
            /\ result = "Err"
            /\ i = Len(seen)

\* "to" was met after a state name and before any source path, with tokens
\* still to come, and the parser has returned
C9_Witness ==
    /\ pc = "done" /\ result = "Err"
    /\ args[Len(seen)] = "to"
    /\ seen[Len(seen)].from = None
    /\ seen[Len(seen)].icon_states # <<>>
    /\ Len(args) > Len(seen)


\* ============================================================ flag syntax
RECURSIVE Split(_)
\* str::split(','): the pieces between the commas, empty ones included
Split(s) ==
    IF \A k \in 1..Len(s) : s[k] # ","
      THEN <<s>>
      ELSE LET k == CHOOSE c \in 1..Len(s) :
                        s[c] = "," /\ \A d \in 1..(c - 1) : s[d] # ","
           IN <<SubSeq(s, 1, k - 1)>> \o Split(SubSeq(s, k + 1, Len(s)))

RECURSIVE TrimStart(_)
TrimStart(s) ==
    IF s # <<>> /\ Head(s) = " " THEN TrimStart(Tail(s)) ELSE s

RECURSIVE TrimEnd(_)
TrimEnd(s) ==
    IF s # <<>> /\ s[Len(s)] = " "
      THEN TrimEnd(SubSeq(s, 1, Len(s) - 1))
      ELSE s

\* a trim that leaves trailing whitespace
TrimStartOnly(s) == TrimStart(s)
\* str::trim
Trim(s) == TrimEnd(TrimStart(s))

NotEmpty(s) == s # <<>>

\* parse_state_arg
ParseStateArg(arg) ==
    LET pieces == Split(arg)
        trimmed == [k \in 1..Len(pieces) |-> Trim(pieces[k])]
    IN SelectSeq(trimmed, NotEmpty)

RECURSIVE FlattenRev(_)
\* a flatten that takes the occurrences last to first
FlattenRev(vv) ==
    IF vv = <<>> THEN <<>> ELSE FlattenRev(Tail(vv)) \o Head(vv)

RECURSIVE Flatten(_)
\* states.into_iter().flatten().collect()
Flatten(vv) ==
    IF vv = <<>> THEN <<>> ELSE Head(vv) \o Flatten(Tail(vv))

RECURSIVE TotalLen(_)
TotalLen(vv) ==
    IF vv = <<>> THEN 0 ELSE Len(Head(vv)) + TotalLen(Tail(vv))

InitFlag ==
    /\ pc = "flag"
    /\ flag_from \in {None, Some("F")}
    /\ flag_to \in {None, Some("T")}
    /\ state_values = <<>>
    /\ states = <<>>
    /\ ParserIdle /\ MergeIdle /\ CommitIdle /\ MainIdle

\* clap meets one more --state occurrence: the value goes through the
\* value_parser and the list it returns is appended (ArgAction::Append)
StateOccurrence ==
    /\ pc = "flag"
    /\ Len(state_values) < MaxOccur
    /\ \E v \in SeqsUpTo(Chars, MaxChars - TotalLen(state_values)) :
          /\ state_values' = Append(state_values, v)
          /\ states' = Append(states, ParseStateArg(v))
    /\ UNCHANGED <<pc, flag_from, flag_to>>
    /\ UNCHANGED <<parserVars, mergeVars, commitVars, mainVars>>

\* FlagParse without requires_all: an incomplete set of flags falls through
\* to the help branch of parse
FlagParseNoRequires ==
    /\ pc = "flag"
    /\ LET given == <<IsSome(flag_from), IsSome(flag_to), states # <<>>>>
       IN CASE given = <<TRUE, TRUE, TRUE>> ->
                 /\ from' = flag_from
                 /\ to' = flag_to
                 /\ icon_states' = Flatten(states)
                 /\ result' = "Ok"
                 /\ err' = ""
            [] OTHER ->
                 /\ result' = "Help"
                 /\ err' = ""
                 /\ UNCHANGED <<from, to, icon_states>>
    /\ pc' = "done"
    /\ UNCHANGED <<args, pos, current_mode, seen>>
    /\ UNCHANGED <<flagVars, mergeVars, commitVars, mainVars>>

\* the end of the command line: clap's requires_all, then the body of parse
\* with natural_args empty
FlagParse ==
    /\ pc = "flag"
    /\ LET given == <<IsSome(flag_from), IsSome(flag_to), states # <<>>>>
       IN CASE given = <<TRUE, TRUE, TRUE>> ->
                 /\ from' = flag_from
                 /\ to' = flag_to
                 /\ icon_states' = Flatten(states)
                 /\ result' = "Ok"
                 /\ err' = ""
            [] given = <<FALSE, FALSE, FALSE>> ->
                 \* print_help, exit(0)
                 /\ result' = "Help"
                 /\ err' = ""
                 /\ UNCHANGED <<from, to, icon_states>>
            [] OTHER ->
                 \* err.print(), exit(1)
                 /\ result' = "Err"
                 /\ err' = "the following required arguments were not provided"
                 /\ UNCHANGED <<from, to, icon_states>>
    /\ pc' = "done"
    /\ UNCHANGED <<args, pos, current_mode, seen>>
    /\ UNCHANGED <<flagVars, mergeVars, commitVars, mainVars>>

NextFlag == StateOccurrence \/ FlagParse

SpecFlag == InitFlag /\ [][NextFlag]_vars

\* ------------------------------------------- properties of the flag syntax
\* the positions that bound the pieces of s: 0, each comma, Len(s) + 1
Cuts(s) == {0, Len(s) + 1} \cup {k \in 1..Len(s) : s[k] = ","}

\* the j-th cut, counted from 1
Cut(s, j) ==
    CHOOSE c \in Cuts(s) : Cardinality({d \in Cuts(s) : d < c}) = j - 1

\* p without the whitespace before its first and after its last other character
Stripped(p) ==
    LET ns == {k \in 1..Len(p) : p[k] # " "} IN
    IF ns = {} THEN <<>>
    ELSE SubSeq(p, CHOOSE k \in ns : \A m \in ns : k <= m,
                   CHOOSE k \in ns : \A m \in ns : k >= m)

\* the names a --state value stands for
NamesOf(s) ==
    LET n == Cardinality(Cuts(s)) - 1
        piece == [j \in 1..n |->
                    Stripped(SubSeq(s, Cut(s, j) + 1, Cut(s, j + 1) - 1))]
    IN SelectSeq(piece, NotEmpty)

\* index into icon_states of the first name of occurrence i, minus one
Offset(i) == TotalLen(SubSeq(states, 1, i - 1))

\* C10: each --state value is split on ',', every piece trimmed, the empty
\* pieces dropped ("a,,b" gives [a, b]); icon_states is the concatenation
\* of the per-occurrence lists in occurrence order, duplicates kept.
C10_StateValues ==
    /\ \A i \in DOMAIN state_values :
          /\ states[i] = NamesOf(state_values[i])
          /\ state_values[i] = <<"a", ",", ",", "b">> =>
                states[i] = << <<"a">>, <<"b">> >>
    /\ Len(states) = Len(state_values)
    /\ (pc = "done" /\ result = "Ok") =>
          /\ Len(icon_states) = TotalLen(states)
          /\ \A i \in DOMAIN states : \A j \in DOMAIN states[i] :
                icon_states[Offset(i) + j] = states[i][j]

\* two occurrences, the first with an empty piece and whitespace to trim,
\* the second repeating a name of the first
C10_Witness ==
    /\ pc = "done" /\ result = "Ok"
    /\ Len(state_values) = 2
    /\ state_values[1] = <<"b", ",", " ">>
    /\ state_values[2] = <<"b">>
    /\ icon_states = << <<"b">>, <<"b">> >>

\* ================================================================== merge
\* a contains that looks at the first requested name only
ContainsFirst(v, x) == v # <<>> /\ v[1] = x

\* args.icon_states.contains(&name)
Contains(v, x) == \E k \in DOMAIN v : v[k] = x

\* a find that takes the last state of that name
FindLast(v, name) ==
    IF \E k \in DOMAIN v : v[k].name = name
      THEN CHOOSE k \in DOMAIN v :
               v[k].name = name /\ \A m \in DOMAIN v : v[m].name = name => m <= k
      ELSE 0

\* to.states.iter_mut().find(|existing_state| existing_state.name == name):
\* the index of the first state of that name, 0 for None
Find(v, name) ==
    IF \E k \in DOMAIN v : v[k].name = name
      THEN CHOOSE k \in DOMAIN v :
               v[k].name = name /\ \A m \in DOMAIN v : v[m].name = name => k <= m
      ELSE 0

InitMerge ==
    /\ pc = "merge"
    /\ icon_states \in Requests
    /\ from = Some("F") /\ to = Some("T")
    /\ args = <<>> /\ pos = 1 /\ current_mode = "States"
    /\ result = "Ok" /\ err = "" /\ seen = <<>>
    /\ from_states \in SeqsUpTo(IconStates, MaxSrc)
    /\ to_states \in SeqsUpTo(IconStates, MaxDst)
    /\ to_before = to_states
    /\ states_to_insert = <<>>
    /\ src_pos = 1
    /\ reports = <<>>
    /\ run = 1
    /\ FlagIdle /\ CommitIdle /\ MainIdle

\* FilterStep writing a replacement to the first place of the destination
FilterStepFirstPlace ==
    /\ pc = "merge"
    /\ src_pos <= Len(from_states)
    /\ LET new_state == from_states[src_pos]
           name == new_state.name
           k == Find(to_states, name)
       IN IF ~Contains(icon_states, name)
            THEN UNCHANGED <<to_states, states_to_insert, reports>>
            ELSE IF k # 0
              THEN IF to_states[k] = new_state
                     THEN /\ reports' = Append(reports, <<name, "identical">>)
                          /\ UNCHANGED <<to_states, states_to_insert>>
                     ELSE /\ reports' = Append(reports, <<name, "replaced">>)
                          /\ to_states' = [to_states EXCEPT ![1] = new_state]
                          /\ UNCHANGED states_to_insert
              ELSE /\ states_to_insert' = Append(states_to_insert, new_state)
                   /\ UNCHANGED <<to_states, reports>>
    /\ src_pos' = src_pos + 1
    /\ UNCHANGED <<pc, from_states, to_before, run>>
    /\ UNCHANGED <<parserVars, flagVars, commitVars, mainVars>>

\* one source state through filter, cloned and filter_map, as collect pulls it
FilterStep ==
    /\ pc = "merge"
    /\ src_pos <= Len(from_states)
    /\ LET new_state == from_states[src_pos]
           name == new_state.name
           k == Find(to_states, name)
       IN IF ~Contains(icon_states, name)
            THEN UNCHANGED <<to_states, states_to_insert, reports>>
            ELSE IF k # 0
              THEN IF to_states[k] = new_state
                     THEN /\ reports' = Append(reports, <<name, "identical">>)
                          /\ UNCHANGED <<to_states, states_to_insert>>
                     ELSE /\ reports' = Append(reports, <<name, "replaced">>)
                          /\ to_states' = [to_states EXCEPT ![k] = new_state]
                          /\ UNCHANGED states_to_insert
              ELSE /\ states_to_insert' = Append(states_to_insert, new_state)
                   /\ UNCHANGED <<to_states, reports>>
    /\ src_pos' = src_pos + 1
    /\ UNCHANGED <<pc, from_states, to_before, run>>
    /\ UNCHANGED <<parserVars, flagVars, commitVars, mainVars>>

\* AppendStep putting the new state in front of the others
AppendStepFront ==
    /\ pc = "merge"
    /\ src_pos > Len(from_states)
    /\ states_to_insert # <<>>
    /\ reports' = Append(reports, <<Head(states_to_insert).name, "added">>)
    /\ to_states' = <<Head(states_to_insert)>> \o to_states
    /\ states_to_insert' = Tail(states_to_insert)
    /\ UNCHANGED <<pc, from_states, to_before, src_pos, run>>
    /\ UNCHANGED <<parserVars, flagVars, commitVars, mainVars>>

\* one turn of the loop over states_to_insert
AppendStep ==
    /\ pc = "merge"
    /\ src_pos > Len(from_states)
    /\ states_to_insert # <<>>
    /\ reports' = Append(reports, <<Head(states_to_insert).name, "added">>)
    /\ to_states' = Append(to_states, Head(states_to_insert))
    /\ states_to_insert' = Tail(states_to_insert)
    /\ UNCHANGED <<pc, from_states, to_before, src_pos, run>>
    /\ UNCHANGED <<parserVars, flagVars, commitVars, mainVars>>

\* the loop is over: main goes on to save_dmi
MergeEnd ==
    /\ pc = "merge"
    /\ src_pos > Len(from_states)
    /\ states_to_insert = <<>>
    /\ pc' = "merged"
    /\ UNCHANGED <<parserVars, flagVars, mergeVars, commitVars, mainVars>>

\* the program is started again with the same arguments, the same source and
\* the destination the run before left
Rerun ==
    /\ pc = "merged"
    /\ run < MaxRuns
    /\ pc' = "merge"
    /\ run' = run + 1
    /\ to_before' = to_states
    /\ states_to_insert' = <<>>
    /\ src_pos' = 1
    /\ reports' = <<>>
    /\ UNCHANGED <<from_states, to_states>>
    /\ UNCHANGED <<parserVars, flagVars, commitVars, mainVars>>

NextMerge == FilterStep \/ AppendStep \/ MergeEnd

SpecMerge == InitMerge /\ [][NextMerge]_vars

NextRerun == FilterStep \/ AppendStep \/ MergeEnd \/ Rerun

SpecRerun == InitMerge /\ [][NextRerun]_vars

RECURSIVE FilterPass(_, _, _, _, _)
\* the filter, cloned, filter_map and collect chain over the source states
\* src, from destination dst, with ins collected and reps printed so far
FilterPass(dst, ins, reps, src, req) ==
    IF src = <<>>
      THEN [dest |-> dst, ins |-> ins, reports |-> reps]
      ELSE LET new_state == Head(src)
               name == new_state.name
               k == Find(dst, name)
           IN IF ~Contains(req, name)
                THEN FilterPass(dst, ins, reps, Tail(src), req)
                ELSE IF k # 0
                  THEN IF dst[k] = new_state
                         THEN FilterPass(dst, ins,
                                         Append(reps, <<name, "identical">>),
                                         Tail(src), req)
                         ELSE FilterPass([dst EXCEPT ![k] = new_state], ins,
                                         Append(reps, <<name, "replaced">>),
                                         Tail(src), req)
                  ELSE FilterPass(dst, Append(ins, new_state), reps,
                                  Tail(src), req)

\* the merge as a function of the destination, the source and the request:
\* the destination and the lines printed when the loop over
\* states_to_insert is over
MergeOf(dst, src, req) ==
    LET f == FilterPass(dst, <<>>, <<>>, src, req)
    IN [dest |-> f.dest \o f.ins,
        reports |-> f.reports
                    \o [k \in 1..Len(f.ins) |-> <<f.ins[k].name, "added">>]]

\* ------------------------------------------------ properties of the merge
NamesIn(v) == {v[k].name : k \in DOMAIN v}

DistinctNames(v) == \A i, j \in DOMAIN v : i # j => v[i].name # v[j].name

\* the source state at j is one the filter lets through
Selected(j) == \E k \in DOMAIN icon_states : icon_states[k] = from_states[j].name

\* the selected source states before j that have the name of the one at j
Earlier(j) ==
    {m \in 1..(j - 1) : Selected(m) /\ from_states[m].name = from_states[j].name}

\* the first place of that name in the destination as the run found it
FirstIn(v, name) ==
    {k \in DOMAIN v : v[k].name = name /\ \A m \in 1..(k - 1) : v[m].name # name}

\* what the destination holds under the name of the source state at j at
\* the time that state is looked up: the last selected source state of that
\* name before j, or else what the destination held when the run started
HeldFor(j) ==
    IF Earlier(j) # {}
      THEN from_states[CHOOSE m \in Earlier(j) : \A n \in Earlier(j) : n <= m]
      ELSE to_before[CHOOSE k \in FirstIn(to_before, from_states[j].name) : TRUE]

\* the outcome the lookup of the source state at j must have
Outcome(j) ==
    IF FirstIn(to_before, from_states[j].name) = {} THEN "added"
    ELSE IF HeldFor(j) = from_states[j] THEN "identical"
    ELSE "replaced"

SourceIndexes == [j \in 1..Len(from_states) |-> j]
IsFound(j) == Selected(j) /\ Outcome(j) # "added"
IsAdded(j) == Selected(j) /\ Outcome(j) = "added"
FoundIndexes == SelectSeq(SourceIndexes, IsFound)
AddedIndexes == SelectSeq(SourceIndexes, IsAdded)

ReportOf(j) == <<from_states[j].name, Outcome(j)>>

\* the states after the places the destination had when the run started
Appended == SubSeq(to_states, Len(to_before) + 1, Len(to_states))

StateA == [name |-> "a", data |-> 1]
StateA2 == [name |-> "a", data |-> 2]
StateB == [name |-> "b", data |-> 1]
StateC == [name |-> "c", data |-> 1]

\* C3: if the destination's names are pairwise distinct before the merge,
\* they are pairwise distinct after it, whatever the source and the request.
C3_NamesStayDistinct ==
    (pc = "merged" /\ DistinctNames(to_before)) => DistinctNames(to_states)

\* C4: a second run with the same source and request on the destination the
\* first run produced leaves the destination as it is and reports every
\* selected source state as identical.
C4_SecondRunIdentical ==
    (pc = "merged" /\ run = 2) =>
        /\ to_states = to_before
        /\ Len(reports) = Cardinality({j \in DOMAIN from_states : Selected(j)})
        /\ \A r \in DOMAIN reports : reports[r][2] = "identical"

\* C5: every selected source state gets exactly one of three outcomes by the
\* lookup of its name in the destination: found and equal, reported
\* identical, nothing changes; found and not equal, reported replaced, that
\* entry becomes the source state; not found, reported added, the state is
\* appended. Destination [A, B], source [A', B, C], request [A, B, C] gives
\* [A', B, C] with A replaced, B identical, C added.
C5_ThreeOutcomes ==
    pc = "merged" =>
        /\ reports = [r \in 1..Len(FoundIndexes) |-> ReportOf(FoundIndexes[r])]
                      \o [r \in 1..Len(AddedIndexes) |-> ReportOf(AddedIndexes[r])]
        /\ Appended = [r \in 1..Len(AddedIndexes) |-> from_states[AddedIndexes[r]]]
        /\ \A j \in DOMAIN from_states :
              (IsFound(j) /\ \A m \in DOMAIN from_states : j \notin Earlier(m)) =>
                  \A k \in FirstIn(to_before, from_states[j].name) :
                      to_states[k] = from_states[j]
        /\ (/\ to_before = <<StateA, StateB>>
            /\ from_states = <<StateA2, StateB, StateC>>
            /\ icon_states = <<"a", "b", "c">>) =>
               /\ to_states = <<StateA2, StateB, StateC>>
               /\ reports = << <<"a", "replaced">>, <<"b", "identical">>,
                               <<"c", "added">> >>

\* the run on destination [A, B], source [A', B, C], request [A, B, C] is over
C5_Witness ==
    /\ pc = "merged"
    /\ to_before = <<StateA, StateB>>
    /\ from_states = <<StateA2, StateB, StateC>>
    /\ icon_states = <<"a", "b", "c">>
    /\ Len(reports) = 3

IsNew(s) ==
    /\ \E k \in DOMAIN icon_states : icon_states[k] = s.name
    /\ s.name \notin NamesIn(to_before)

\* C6: after the merge the places the destination had before hold states of
\* the same names as before, and the states appended after them are in the
\* order in which the source holds them, not in the order of the request.
C6_OrderKept ==
    pc = "merged" =>
        /\ Len(to_states) >= Len(to_before)
        /\ \A k \in DOMAIN to_before : to_states[k].name = to_before[k].name
        /\ Appended = SelectSeq(from_states, IsNew)

\* one state replaced and two appended, requested in the opposite order
C6_Witness ==
    /\ pc = "merged"
    /\ icon_states = <<"c", "b", "a">>
    /\ to_before = <<StateA>>
    /\ from_states = <<StateA2, StateB, StateC>>
    /\ to_states = <<StateA2, StateB, StateC>>

\* =============================================================== save_dmi
InitCommit ==
    /\ pc = "save"
    /\ payload \in SeqsUpTo(Bytes, MaxBytes) \ {<<>>}
    /\ dest_file \in SeqsUpTo(Bytes, MaxBytes) \ {<<>>}
    /\ dest_before = dest_file
    /\ temp_exists = FALSE
    /\ temp_file = <<>>
    /\ buffer = <<>>
    /\ copied = 0
    /\ args = <<>> /\ pos = 1 /\ icon_states = <<>>
    /\ from = Some("F") /\ to = Some("T")
    /\ current_mode = "States" /\ result = "Running" /\ err = ""
    /\ seen = <<>>
    /\ FlagIdle /\ MergeIdle /\ MainIdle

\* a drop that leaves the file on disk
DropTempKeep == UNCHANGED <<temp_exists, temp_file, buffer>>

\* the NamedTempFile goes out of scope: the file is removed
DropTemp ==
    /\ temp_exists' = FALSE
    /\ temp_file' = <<>>
    /\ buffer' = <<>>

\* CreateTemp making the file at the destination path instead
CreateTempInPlace ==
    /\ pc = "save"
    /\ \E ok \in BOOLEAN :
          IF ok
            THEN /\ temp_exists' = TRUE
                 /\ temp_file' = <<>>
                 /\ buffer' = <<>>
                 /\ pc' = "save_write"
                 /\ dest_file' = <<>>
                 /\ UNCHANGED <<result, err>>
            ELSE /\ ReturnErr("failed to create temporary output file")
                 /\ UNCHANGED <<temp_exists, temp_file, buffer, dest_file>>
    /\ UNCHANGED <<payload, dest_before, copied>>
    /\ UNCHANGED <<args, pos, icon_states, from, to, current_mode, seen>>
    /\ UNCHANGED <<flagVars, mergeVars, mainVars>>

\* tempfile::Builder::new().suffix(".dmi").tempfile().map(BufWriter::new)
CreateTemp ==
    /\ pc = "save"
    /\ \E ok \in BOOLEAN :
          IF ok
            THEN /\ temp_exists' = TRUE
                 /\ temp_file' = <<>>
                 /\ buffer' = <<>>
                 /\ pc' = "save_write"
                 /\ UNCHANGED <<result, err>>
            ELSE /\ ReturnErr("failed to create temporary output file")
                 /\ UNCHANGED <<temp_exists, temp_file, buffer>>
    /\ UNCHANGED <<payload, dest_file, dest_before, copied>>
    /\ UNCHANGED <<args, pos, icon_states, from, to, current_mode, seen>>
    /\ UNCHANGED <<flagVars, mergeVars, mainVars>>

\* dmi.save(&mut file): the bytes go to the BufWriter, which passes on to
\* the file what it does not keep
SaveDmi ==
    /\ pc = "save_write"
    /\ \E ok \in BOOLEAN :
          IF ok
            THEN /\ \E n \in 0..Len(payload) :
                      /\ temp_file' = SubSeq(payload, 1, n)
                      /\ buffer' = SubSeq(payload, n + 1, Len(payload))
                 /\ pc' = "save_flush"
                 /\ UNCHANGED <<temp_exists, result, err>>
            ELSE /\ ReturnErr("failed to save dmi")
                 /\ DropTemp
    /\ UNCHANGED <<payload, dest_file, dest_before, copied>>
    /\ UNCHANGED <<args, pos, icon_states, from, to, current_mode, seen>>
    /\ UNCHANGED <<flagVars, mergeVars, mainVars>>

\* file.into_inner(): the BufWriter writes out what it holds
IntoInner ==
    /\ pc = "save_flush"
    /\ \E ok \in BOOLEAN :
          IF ok
            THEN /\ temp_file' = temp_file \o buffer
                 /\ buffer' = <<>>
                 /\ pc' = "save_copy"
                 /\ UNCHANGED <<temp_exists, result, err>>
            ELSE /\ ReturnErr("failed to finish writing buffer to file")
                 /\ DropTemp
    /\ UNCHANGED <<payload, dest_file, dest_before, copied>>
    /\ UNCHANGED <<args, pos, icon_states, from, to, current_mode, seen>>
    /\ UNCHANGED <<flagVars, mergeVars, mainVars>>

\* std::fs::copy, first part: the file at the destination path is opened
\* for writing and cut to length 0
CopyOpen ==
    /\ pc = "save_copy"
    /\ \E ok \in BOOLEAN :
          IF ok
            THEN /\ dest_file' = <<>>
                 /\ copied' = 0
                 /\ pc' = "copying"
                 /\ UNCHANGED <<temp_exists, temp_file, buffer, result, err>>
            ELSE /\ ReturnErr("failed to copy temp file to target")
                 /\ DropTemp
                 /\ UNCHANGED <<dest_file, copied>>
    /\ UNCHANGED <<payload, dest_before>>
    /\ UNCHANGED <<args, pos, icon_states, from, to, current_mode, seen>>
    /\ UNCHANGED <<flagVars, mergeVars, mainVars>>

\* std::fs::copy, second part: the next byte of the temporary file is
\* written to the destination
CopyByte ==
    /\ pc = "copying"
    /\ copied < Len(temp_file)
    /\ \E ok \in BOOLEAN :
          IF ok
            THEN /\ dest_file' = Append(dest_file, temp_file[copied + 1])
                 /\ copied' = copied + 1
                 /\ UNCHANGED <<pc, temp_exists, temp_file, buffer, result, err>>
            ELSE /\ ReturnErr("failed to copy temp file to target")
                 /\ DropTemp
                 /\ UNCHANGED <<dest_file, copied>>
    /\ UNCHANGED <<payload, dest_before>>
    /\ UNCHANGED <<args, pos, icon_states, from, to, current_mode, seen>>
    /\ UNCHANGED <<flagVars, mergeVars, mainVars>>

\* std::fs::copy has written every byte: Ok(())
CopyEnd ==
    /\ pc = "copying"
    /\ copied = Len(temp_file)
    /\ result' = "Ok"
    /\ err' = ""
    /\ pc' = "done"
    /\ DropTemp
    /\ UNCHANGED <<payload, dest_file, dest_before, copied>>
    /\ UNCHANGED <<args, pos, icon_states, from, to, current_mode, seen>>
    /\ UNCHANGED <<flagVars, mergeVars, mainVars>>

NextCommit ==
    CreateTemp \/ SaveDmi \/ IntoInner \/ CopyOpen \/ CopyByte \/ CopyEnd

SpecCommit == InitCommit /\ [][NextCommit]_vars

\* ---------------------------------------------- properties of save_dmi
\* C2: if the copy of the temporary file onto the destination path fails at
\* any point, the destination file is as it was before the run, and the
\* error is returned without a retry.
C2_FailedCopyKeepsDestination ==
    (pc = "done" /\ err = "failed to copy temp file to target") =>
        /\ result = "Err"
        /\ dest_file = dest_before

\* ----------------------------------- further properties of the parser
\* what the parser holds now
Held ==
    [mode |-> current_mode, icon_states |-> icon_states,
     from |-> from, to |-> to]

\* what the parser held once it was through with token i
After(i) == IF i < Len(seen) THEN seen[i + 1] ELSE Held

\* parse_natural_syntax returned an error at token i
ErrAt(i) == i = Len(seen) /\ pos = i /\ result = "Err"

\* the for loop came to the end of the input
AtEnd == pc = "done" /\ pos > Len(args)

\* C16: the token right after an accepted "from" is always stored as the
\* source path and moves the parser to WaitingTo, and the token right after
\* an accepted "to" is always stored as the destination path and moves the
\* parser to Done, whatever the token is, "from" and "to" included.
C16_TokenAfterKeywordIsPath ==
    \A i \in DOMAIN seen :
        /\ seen[i].mode = "From" =>
              /\ ~ErrAt(i)
              /\ After(i).from = Some(args[i])
              /\ After(i).mode = "WaitingTo"
        /\ seen[i].mode = "To" =>
              /\ ~ErrAt(i)
              /\ After(i).to = Some(args[i])
              /\ After(i).mode = "Done"

\* C17 as stated: in mode States every token other than "from", the token
\* "to" included, is appended to the state names, the mode stays States and
\* there is no error.
C17_StatesAppendsAllButFrom ==
    \A i \in DOMAIN seen :
        (seen[i].mode = "States" /\ args[i] # "from") =>
            /\ ~ErrAt(i)
            /\ After(i).icon_states = Append(seen[i].icon_states, args[i])
            /\ After(i).mode = "States"

\* C17 as amended: in mode States every token other than "from" and "to" is
\* appended to the state names, the mode stays States and there is no error;
\* the token "to" makes parse_natural_syntax return an error.
C17_StatesAppendsNonKeywords ==
    \A i \in DOMAIN seen :
        seen[i].mode = "States" =>
            /\ args[i] \notin Keywords =>
                  /\ ~ErrAt(i)
                  /\ After(i).icon_states = Append(seen[i].icon_states, args[i])
                  /\ After(i).mode = "States"
                  /\ After(i).from = seen[i].from
                  /\ After(i).to = seen[i].to
            /\ args[i] = "to" =>
                  /\ ErrAt(i)
                  /\ Held = seen[i]

\* two different names were appended in mode States, then "to" was refused
C17_Witness ==
    /\ pc = "done"
    /\ Len(seen) = 3
    /\ seen[3].mode = "States"
    /\ seen[3].icon_states = <<"b", "a">>
    /\ args[3] = "to"
    /\ ErrAt(3)

\* C18: parse_natural_syntax returns Ok only if the input ends in mode Done
\* with both paths set; an input that ends in another mode gives an error:
\* "Missing destination file" with only the source set, "Missing source
\* file" with only the destination set, "Missing both source and
\* destination file" with neither.
C18_OkOnlyInDone ==
    AtEnd =>
        /\ result = "Ok" =>
              current_mode = "Done" /\ IsSome(from) /\ IsSome(to)
        /\ current_mode # "Done" =>
              /\ result = "Err"
              /\ (IsSome(from) /\ ~IsSome(to)) =>
                    err = "Missing destination file"
              /\ (~IsSome(from) /\ IsSome(to)) =>
                    err = "Missing source file"
              /\ (~IsSome(from) /\ ~IsSome(to)) =>
                    err = "Missing both source and destination file"

\* C19: at every step the destination path is set only if the source path
\* is, and the source path only if there is a state name; the outcome
\* "Missing source file" never happens, and every Ok request has at least
\* one state name, none of them "from" or "to".
C19_PathsImplyStates ==
    /\ IsSome(to) => IsSome(from)
    /\ IsSome(from) => icon_states # <<>>
    /\ err # "Missing source file"
    /\ \A k \in DOMAIN icon_states : icon_states[k] \notin Keywords
    /\ (pc = "done" /\ result = "Ok") => icon_states # <<>>

\* a request with two state names was returned
C19_Witness ==
    /\ pc = "done" /\ result = "Ok"
    /\ IsSome(to) /\ IsSome(from)
    /\ Len(icon_states) = 2

\* ------------------------------- further properties of the flag syntax
\* how many of --from, --to and --state the command line has
FlagsGiven ==
    (IF IsSome(flag_from) THEN 1 ELSE 0) + (IF IsSome(flag_to) THEN 1 ELSE 0)
        + (IF state_values # <<>> THEN 1 ELSE 0)

\* C14: a command line with at least one of --from, --to and --state but not
\* all three fails with a non-zero exit and gives no request; a request is
\* produced only when all three are there.
C14_AllThreeFlags ==
    pc = "done" =>
        /\ FlagsGiven \in {1, 2} =>
              /\ result = "Err"
              /\ from = None /\ to = None /\ icon_states = <<>>
        /\ result = "Ok" <=> FlagsGiven = 3
        /\ result = "Ok" => (from = flag_from /\ to = flag_to)

\* --from and --state without --to has been refused
C14_Witness ==
    /\ pc = "done"
    /\ IsSome(flag_from) /\ ~IsSome(flag_to) /\ state_values # <<>>
    /\ result = "Err"

\* ----------------------------------- further properties of save_dmi
\* C13: on every way out of save_dmi (success, failure to serialize, to
\* flush or to copy) the temporary file is gone once the run has ended.
C13_TempFileGone ==
    /\ pc = "done" => ~temp_exists
    /\ temp_exists => pc \in {"save_write", "save_flush", "save_copy", "copying"}

\* the temporary file was written and the run ended on a failed copy
C13_Witness ==
    /\ pc = "done"
    /\ err = "failed to copy temp file to target"
    /\ copied > 0
    /\ ~temp_exists

\* ------------------------------------ further properties of the merge
InSource(n) == \E j \in DOMAIN from_states : from_states[j].name = n

\* the request without the names that no source state has
Pruned == SelectSeq(icon_states, InSource)

\* C11: requested names that no source state has are ignored: they give no
\* report and no change, and the merge ends as the merge with those names
\* taken out of the request does.
C11_AbsentNamesIgnored ==
    pc = "merged" =>
        /\ result = "Ok"
        /\ \A r \in DOMAIN reports : InSource(reports[r][1])
        /\ \A k \in (Len(to_before) + 1)..Len(to_states) :
              InSource(to_states[k].name)
        /\ to_states = MergeOf(to_before, from_states, Pruned).dest
        /\ reports = MergeOf(to_before, from_states, Pruned).reports

\* the request named c first, which the source lacks, and a, which it has
C11_Witness ==
    /\ pc = "merged"
    /\ icon_states = <<"c", "a">>
    /\ from_states = <<StateA2, StateB>>
    /\ to_before = <<StateA>>
    /\ to_states = <<StateA2>>

\* some selected source state has the name n
NameSelected(n) ==
    \E j \in DOMAIN from_states : Selected(j) /\ from_states[j].name = n

\* C20: the merge never changes the source; a destination state whose name
\* is not that of a selected source state keeps its content and its place;
\* the destination never gets shorter.
C20_Frame ==
    [][/\ from_states' = from_states
       /\ Len(to_states') >= Len(to_states)
       /\ \A k \in DOMAIN to_states :
             ~NameSelected(to_states[k].name) => to_states'[k] = to_states[k]
      ]_vars

\* a was replaced in the second place while b, not requested, kept the first
C20_Witness ==
    /\ pc = "merged"
    /\ icon_states = <<"a">>
    /\ from_states = <<StateA2, StateB>>
    /\ to_before = <<StateB, StateA>>
    /\ to_states = <<StateB, StateA2>>

\* =================================================================== main
\* The files are sequences of bytes: a header, then name and data of each
\* state.
Header == "DMI"

DataByte(d) == IF d = 1 THEN "1" ELSE "2"

RECURSIVE EncodeStates(_)
EncodeStates(v) ==
    IF v = <<>> THEN <<>>
    ELSE <<Head(v).name, DataByte(Head(v).data)>> \o EncodeStates(Tail(v))

\* Icon::save: the bytes of a container
Encode(v) == <<Header>> \o EncodeStates(v)

\* Icon::load succeeds on these bytes
Decodable(b) ==
    /\ b # <<>>
    /\ b[1] = Header
    /\ (Len(b) - 1) % 2 = 0
    /\ \A k \in 1..((Len(b) - 1) \div 2) :
          b[2 * k] \in Names /\ b[2 * k + 1] \in {"1", "2"}

\* Icon::load: the container in these bytes
Decode(b) ==
    [k \in 1..((Len(b) - 1) \div 2) |->
        [name |-> b[2 * k], data |-> IF b[2 * k + 1] = "1" THEN 1 ELSE 2]]

\* what a file may hold: a container, or bytes that are no container
FileContents ==
    {Encode(c) : c \in SeqsUpTo(IconStates, MainLen)} \cup {<<"?">>}

InitMain ==
    /\ pc = "natural"
    /\ stage = "parse"
    /\ err_path = ""
    /\ args \in SeqsUpTo(Tokens, MainArgs) \ {<<>>}
    /\ pos = 1
    /\ icon_states = <<>>
    /\ from = None
    /\ to = None
    /\ current_mode = "States"
    /\ result = "Running"
    /\ err = ""
    /\ seen = <<>>
    /\ dest_file \in FileContents
    /\ dest_before = dest_file
    /\ payload = <<>>
    /\ temp_exists = FALSE /\ temp_file = <<>> /\ buffer = <<>>
    /\ copied = 0
    /\ FlagIdle /\ MergeIdle

\* args::DmiCopyArgs::parse() returned an error: main returns it
ParseFailed ==
    /\ stage = "parse"
    /\ pc = "done" /\ result = "Err"
    /\ stage' = "exit"
    /\ UNCHANGED <<pc, err_path>>
    /\ UNCHANGED <<parserVars, flagVars, mergeVars, commitVars>>

\* let from = load_dmi(&args.from).wrap_err_with(..)?: the file at the
\* source path is the destination file if the two paths are the same
LoadFrom ==
    /\ stage = "parse"
    /\ pc = "done" /\ result = "Ok"
    /\ \E opened \in BOOLEAN, content \in FileContents :
          /\ from = to => content = dest_file
          /\ IF opened /\ Decodable(content)
               THEN /\ from_states' = Decode(content)
                    /\ stage' = "load_to"
                    /\ UNCHANGED <<result, err, err_path>>
               ELSE /\ result' = "Err"
                    /\ err' = "failed to read input file"
                    /\ err_path' = from[1]
                    /\ stage' = "exit"
                    /\ UNCHANGED from_states
    /\ UNCHANGED pc
    /\ UNCHANGED <<args, pos, icon_states, from, to, current_mode, seen>>
    /\ UNCHANGED <<to_states, to_before, states_to_insert, src_pos, reports, run>>
    /\ UNCHANGED <<flagVars, commitVars>>

\* let mut to = load_dmi(&args.to).wrap_err_with(|| format!("failed to read
\* output file {}", args.from.display()))?
LoadTo ==
    /\ stage = "load_to"
    /\ \E opened \in BOOLEAN :
          IF opened /\ Decodable(dest_file)
            THEN /\ to_states' = Decode(dest_file)
                 /\ to_before' = Decode(dest_file)
                 /\ pc' = "merge"
                 /\ stage' = "merge"
                 /\ UNCHANGED <<result, err, err_path>>
            ELSE /\ result' = "Err"
                 /\ err' = "failed to read output file"
                 /\ err_path' = from[1]
                 /\ stage' = "exit"
                 /\ UNCHANGED <<pc, to_states, to_before>>
    /\ UNCHANGED <<args, pos, icon_states, from, to, current_mode, seen>>
    /\ UNCHANGED <<from_states, states_to_insert, src_pos, reports, run>>
    /\ UNCHANGED <<flagVars, commitVars>>

\* save_dmi(to, &args.to) is called
CallSave ==
    /\ stage = "merge"
    /\ pc = "merged"
    /\ pc' = "save"
    /\ stage' = "save"
    /\ payload' = Encode(to_states)
    /\ result' = "Running"
    /\ UNCHANGED <<dest_file, dest_before, temp_exists, temp_file, buffer, copied>>
    /\ UNCHANGED <<args, pos, icon_states, from, to, current_mode, err, seen>>
    /\ UNCHANGED <<flagVars, mergeVars, err_path>>

\* save_dmi returned: main returns its error, or prints done! and Ok(())
MainReturn ==
    /\ stage = "save"
    /\ pc = "done"
    /\ stage' = "exit"
    /\ UNCHANGED <<pc, err_path>>
    /\ UNCHANGED <<parserVars, flagVars, mergeVars, commitVars>>

NextMain ==
    \/ FromKeyword \/ ToKeyword \/ Value \/ EndOfArgs
    \/ ParseFailed \/ LoadFrom \/ LoadTo
    \/ FilterStep \/ AppendStep \/ MergeEnd
    \/ CallSave
    \/ CreateTemp \/ SaveDmi \/ IntoInner \/ CopyOpen \/ CopyByte \/ CopyEnd
    \/ MainReturn

SpecMain == InitMain /\ [][NextMain]_vars

\* ------------------------------------------------- properties of main
\* fs::copy has opened the destination file
Published ==
    \/ pc = "copying"
    \/ /\ pc = "done"
       /\ stage \in {"save", "exit"}
       /\ result = "Ok" \/ err = "failed to copy temp file to target"

\* C12: the destination file is written only by the copy at the end of
\* save_dmi, which runs only after the arguments were parsed, both files
\* loaded, the merge done and the temporary file written and flushed in
\* full; if parsing, a load or the serialization fails, the run ends with an
\* error and the destination file holds what it held before the run.
C12_OnlyTheCopyWrites ==
    /\ dest_file # dest_before => Published
    /\ pc = "copying" =>
          /\ stage = "save"
          /\ IsSome(from) /\ IsSome(to)
          /\ Decodable(dest_before)
          /\ to_before = Decode(dest_before)
          /\ to_states = MergeOf(to_before, from_states, icon_states).dest
          /\ payload = Encode(to_states)
          /\ temp_file = payload /\ buffer = <<>>
    /\ (stage = "exit" /\ ~Published) =>
          /\ result = "Err"
          /\ dest_file = dest_before

\* the run ended on a failed serialization, after a merge that added a state
C12_Witness ==
    /\ stage = "exit"
    /\ err = "failed to save dmi"
    /\ dest_file = dest_before
    /\ Len(to_states) > Len(to_before)

\* C15: a failed load is reported with the path of the file that was being
\* loaded: the source path for the source file, the destination path for
\* the destination file.
C15_LoadErrorNamesItsFile ==
    /\ err = "failed to read input file" => err_path = from[1]
    /\ err = "failed to read output file" => err_path = to[1]

====
